---- MODULE Spec2Model ----
(***************************************************************************)
(* vLLM Manager (src/vllm_manager.py): the instance registry               *)
(* running_models, the persisted STATE_FILE, the inference-server          *)
(* processes the manager spawns, and the request handlers start_model and  *)
(* stop_model as coroutines of one asyncio event loop.  A handler runs     *)
(* atomically between two of its awaits; each action below is one such     *)
(* atomic piece.  The manager itself may be restarted (load_state), and    *)
(* the spawned processes come up and exit on their own.                    *)
(*                                                                         *)
(* Spec       start_model, stop_model, manager restart, the processes      *)
(* SpecGroup  Spec with the children the spawned servers fork              *)
(* SpecOps    Spec with restart_model and assign_gpu                       *)
(* SpecLog    the Log Hub of spec.md 4.2 (no such code in src/)            *)
(* SpecTasks  the Background Task Runner of spec.md 4.3 (no code in src/)  *)
(* SpecStatus   the supervisor's state machine of spec.md 4.4 (no code)    *)
(* SpecRequests start, stop, restart, assign-gpu, stop-all; no restart of  *)
(*              the manager                                                *)
(* SpecStopAll  Spec with stop_all_models                                  *)
(* SpecSave     start and stop with a state file that may not be writable  *)
(* SpecList     list_running_models among start and stop requests          *)
(* SpecAssign   assign_gpu on a host where another server takes ports      *)
(* SpecSession  login, logout, check-auth and the clock                    *)
(* SpecAuth     the protected routes called with good and bad tokens       *)
(***************************************************************************)
EXTENDS Integers, Sequences, FiniteSets, TLC

\* ---------------------------------------------------------------- bounds
\* Processes the host lets the manager spawn in one behaviour (pids 1..MaxSpawns).
MaxSpawns == 2
\* Lines pushed into the log channel in one behaviour.
MaxPushes == 202
\* Pushed lines whose broadcast the event loop has not run yet.
MaxPending == 1
\* Runs of one taskId the task runner accepts in one behaviour.
MaxRuns == 2
\* Items a task's worker may leave unread in its channel.
MaxQueued == 2
\* Tokens the logins of one behaviour draw (tokens 1..MaxTokens).
MaxTokens == 2
\* The clock stops at MaxTime seconds.
MaxTime == 3601
\* Starts the supervisor state machine accepts in one behaviour.
MaxStarts == 3

\* ------------------------------------------------------ program constants
\* find_available_port(start_port = 8000)
DefaultStartPort == 8000

\* The model names requests carry.  MODEL_DIR holds a directory for m1 and m2,
\* none for m0; only m1's directory has a vllm_config.yaml.
Models == {"m0", "m1", "m2"}
ModelDirExists(m) == m \in {"m1", "m2"}
YamlExists(m) == m = "m1"

TEXT == "text-generation"
EMBEDDING == "embedding"

\* The request body of start_model: config is None (given = FALSE) or a
\* ModelConfig; port 0 is the falsy port that makes start_model allocate one.
\* With config None start_model takes gpu_ids "0" and the text type (lines
\* 479-485) and stores the config {} in the entry: NoConfig is that empty
\* dict, and a record with given = FALSE other than NoConfig is a dict that
\* has some keys but not the required ones of ModelConfig.
NoConfig == [given |-> FALSE, port |-> 0, gpu_ids |-> "0", model_type |-> TEXT]
Configs ==
    { NoConfig,
      [given |-> TRUE, port |-> 0, gpu_ids |-> "1", model_type |-> TEXT],
      [given |-> TRUE, port |-> DefaultStartPort, gpu_ids |-> "0", model_type |-> EMBEDDING] }

\* lines 33, 38
ADMIN_USERNAME == "admin"
SESSION_TIMEOUT == 3600

\* the gpu_ids an assign_gpu request carries
Gpus == {"1", "2"}

\* spec.md 3 (LogChannel): capacity 200 most-recent lines, oldest evicted first
LogCapacity == 200

\* spec.md 3 (BackgroundTask): the taskIds requests carry, and the completion
\* sentinel, distinct from any line
Tasks == {"dl-1", "upgrade"}
Sentinel == "DONE"

VARIABLES
    running_models, \* the registry, a dict in insertion order: Seq of entries
    state_file,     \* STATE_FILE on disk: the entries last written by save_state
    procs,          \* live inference-server processes: pid -> process record
    next_pid,       \* the pid the next spawned process gets
    calls,          \* the requests suspended at an await (coroutine frames)
    ev,             \* what the last step did: the request handled and its response
    kids,           \* pids whose process group holds a live child forked by the server
    log_buffer,     \* Log Hub: the buffered lines of the channel (line k is the k-th pushed)
    log_pending,    \* Log Hub: pushed lines whose broadcast waits for the event loop
    log_count,      \* Log Hub: number of lines pushed so far
    subscriber,     \* Log Hub: what the one subscriber has been sent
    task_registry,  \* Task Runner: the taskIds that are registered
    task_channel,   \* Task Runner: taskId -> the unread items of its channel
    workers,        \* Task Runner: the worker threads that have not returned
    task_runs,      \* Task Runner: taskId -> number of runs accepted so far
    observed,       \* Task Runner: taskId -> the last run whose sentinel the consumer has read
    task_ev,        \* Task Runner: the last spawn request and its answer
    sessions,       \* the session table: token -> session
    session_file,   \* SESSION_FILE on disk: the table last written by save_sessions
    now,            \* datetime.now(), in seconds
    next_token,     \* the token the next create_session draws
    issued,         \* history: token -> the time a login issued it
    revoked,        \* history: the tokens that have been logged out
    inst_status,    \* Supervisor state machine: modelId -> InstanceStatus
    health_checks,  \* Supervisor state machine: the health-check routines in flight
    hc_count,       \* Supervisor state machine: number of starts accepted so far
    status_ev,      \* Supervisor state machine: the last request and its answer
    listing         \* the list_running_models request suspended in its loop

manager_vars == <<running_models, state_file, procs, next_pid, calls, ev, kids>>
log_vars == <<log_buffer, log_pending, log_count, subscriber>>
task_vars == <<task_registry, task_channel, workers, task_runs, observed, task_ev>>
auth_vars == <<sessions, session_file, now, next_token, issued, revoked>>
status_vars == <<inst_status, health_checks, hc_count, status_ev>>
list_vars == <<listing>>
vars == <<manager_vars, log_vars, task_vars, auth_vars, status_vars, list_vars>>

\* ------------------------------------------------------------- registry
Names(reg) == { reg[i].name : i \in 1..Len(reg) }
IsRegistered(m) == m \in Names(running_models)
IndexOf(reg, m) == CHOOSE i \in 1..Len(reg) : reg[i].name = m
Entry(m) == running_models[IndexOf(running_models, m)]

\* running_models[name] = entry: a new key is appended, an existing key keeps
\* its place and gets the new value
DictSet(reg, e) ==
    IF e.name \in Names(reg)
    THEN [reg EXCEPT ![IndexOf(reg, e.name)] = e]
    ELSE Append(reg, e)

\* del running_models[name]
DictDel(reg, m) ==
    LET i == IndexOf(reg, m)
    IN  [j \in 1..(Len(reg) - 1) |-> IF j < i THEN reg[j] ELSE reg[j + 1]]

\* the request the last step handled and the response it gave (code 0: none yet)
\* op "start" is a start_model answered before its sleep, "spawn" one that has
\* spawned its process and sleeps (no response yet), "start_return" one answered
\* after its sleep.
\* body is the content of a 200 response, as a sequence of records: for
\* start_model the one record of port and pid, for list_running_models the
\* statuses, for stop_all_models the names stopped and in error; for the
\* session routes, the request's credentials or token with the answer.
NoEvent == [op |-> "none", model |-> "m0", code |-> 0, detail |-> "", body |-> <<>>]
Reply(op, m, code, detail, body) ==
    [op |-> op, model |-> m, code |-> code, detail |-> detail, body |-> body]
Response(op, m, code, detail) == Reply(op, m, code, detail, <<>>)

\* ------------------------------------------------------- port allocator
\* an allocator that does not try to bind the port
is_port_available_unchecked(port) == TRUE

\* is_port_available: a bind on the port succeeds unless a process listens on it
is_port_available(port) ==
    \A pid \in DOMAIN procs : ~(procs[pid].st = "ready" /\ procs[pid].port = port)

used_ports == { running_models[i].port : i \in 1..Len(running_models) }

RECURSIVE scan_ports(_)
scan_ports(port) ==
    IF port \in used_ports \/ ~is_port_available(port)
    THEN scan_ports(port + 1)
    ELSE port

find_available_port(start_port) == scan_ports(start_port)

\* check_model_health: GET http://localhost:port/health answers 200
check_model_health(port) ==
    \E pid \in DOMAIN procs : procs[pid].st = "ready" /\ procs[pid].port = port

\* ------------------------------------------------------------ save_state
\* what save_state writes: every entry without its process handle (a write
\* that fails is the action StartModelSaveFails)
save_state(reg) == [i \in 1..Len(reg) |-> [reg[i] EXCEPT !.process = FALSE]]

\* ---------------------------------------------------------- start_model
\* a start_model without its first check
AlreadyRunning_unchecked(m) == FALSE

\* line 468: if model_name in running_models
AlreadyRunning(m) == IsRegistered(m)

\* a start_model that does not look for the model directory
ModelNotFound_unchecked(m) == FALSE

\* lines 471-473: if not model_path.exists()
ModelNotFound(m) == ~ModelDirExists(m)

\* lines 476-488: no config in the request and no vllm_config.yaml on disk
NoConfiguration(m, config) == ~config.given /\ ~YamlExists(m)

\* lines 475-496: the port the instance is started on
StartPort(config) ==
    IF config.given /\ config.port # 0
    THEN config.port
    ELSE find_available_port(DefaultStartPort)

\* no entry: the value of prev in the frame of a request that stopped nothing
NoEntry ==
    [name |-> "", pid |-> 0, port |-> 0, gpu_ids |-> "", model_type |-> "",
     config |-> NoConfig, process |-> FALSE]

\* The request suspended at await check_model_health: pos is the place of the
\* entry being probed, size the number of entries when the iterator was
\* made, cur the (name, info) pair the iterator gave, statuses the list built
\* so far.  History: probes, the answers of the probes; reg0, the registry
\* when the request came in; quiet, whether the registry was reg0 at every
\* step so far; seen, the names registered at some step.
NoListing ==
    [active |-> FALSE, pos |-> 0, size |-> 0, cur |-> NoEntry, statuses |-> <<>>,
     probes |-> <<>>, reg0 |-> <<>>, quiet |-> TRUE, seen |-> {}]

\* A coroutine suspended at an await.  op is the handler that sleeps ("start":
\* start_model at sleep(3); "restart", "assign": restart_model, assign_gpu at
\* sleep(2)); caller is the endpoint the request came in by; prev is the
\* entry that request has stopped.
Frame(op, m, config, port, pid, caller, prev) ==
    [op |-> op, model |-> m, config |-> config, port |-> port, pid |-> pid,
     caller |-> caller, prev |-> prev]

StartFrame(m, config, port, pid) ==
    Frame("start", m, config, port, pid, "start", NoEntry)

\* start_model up to its await asyncio.sleep(3): the checks, the port, Popen.
\* It runs for the endpoint `caller` (an HTTPException it raises is that
\* request's response) while the requests `others` stay suspended.
start_model(m, config, popen_ok, caller, prev, others) ==
    IF AlreadyRunning(m)
    THEN /\ ev' = Response(caller, m, 400, "already running")
         /\ calls' = others
         /\ UNCHANGED <<procs, next_pid>>
    ELSE IF ModelNotFound(m)
    THEN /\ ev' = Response(caller, m, 404, "model not found")
         /\ calls' = others
         /\ UNCHANGED <<procs, next_pid>>
    ELSE IF NoConfiguration(m, config)
    THEN /\ ev' = Response(caller, m, 404, "no configuration")
         /\ calls' = others
         /\ UNCHANGED <<procs, next_pid>>
    ELSE IF ~popen_ok
    THEN \* Popen raises: caught by except Exception, answered 500
         /\ ev' = Response(caller, m, 500, "popen failed")
         /\ calls' = others
         /\ UNCHANGED <<procs, next_pid>>
    ELSE /\ next_pid <= MaxSpawns
         /\ LET port == StartPort(config)
                pid == next_pid
            IN  /\ procs' = (pid :> [port |-> port, st |-> "starting",
                                     CUDA_VISIBLE_DEVICES |-> config.gpu_ids]) @@ procs
                /\ next_pid' = next_pid + 1
                /\ calls' = others \cup
                      {Frame("start", m, config, port, pid, caller, prev)}
                /\ ev' = Response("spawn", m, 0, "")

\* the endpoint POST /api/models/{model_name}/start, up to the sleep
StartModelBegin(m, config, popen_ok) ==
    /\ UNCHANGED <<running_models, state_file, kids, log_vars, task_vars, auth_vars, status_vars, list_vars>>
    /\ start_model(m, config, popen_ok, "start", NoEntry, calls)

\* lines 539-547: the entry start_model stores
NewEntry(f) ==
    [name |-> f.model, pid |-> f.pid, port |-> f.port, gpu_ids |-> f.config.gpu_ids,
     model_type |-> f.config.model_type, config |-> f.config, process |-> TRUE]

\* the op of the response a request gives after its last sleep
ReturnOp(caller) ==
    CASE caller = "start" -> "start_return"
      [] caller = "restart" -> "restart_return"
      [] caller = "assign" -> "assign_return"

\* start_model after its await asyncio.sleep(3): poll, register, save, answer.
\* Called from restart_model or assign_gpu, its outcome is their response.
StartModelFinish(f) ==
    /\ f \in calls
    /\ f.op = "start"
    /\ calls' = calls \ {f}
    /\ UNCHANGED <<procs, next_pid, kids, log_vars, task_vars, auth_vars, status_vars, list_vars>>
    /\ IF f.pid \notin DOMAIN procs
       THEN \* process.poll() is not None
            /\ ev' = Response(ReturnOp(f.caller), f.model, 500, "failed to start")
            /\ UNCHANGED <<running_models, state_file>>
       ELSE /\ running_models' = DictSet(running_models, NewEntry(f))
            /\ state_file' = save_state(running_models')
            /\ ev' = Reply(ReturnOp(f.caller), f.model, 200, "",
                           IF f.caller = "assign"
                           THEN <<>>
                           ELSE <<[port |-> f.port, pid |-> f.pid]>>)

\* start_model after its sleep when save_state raises: open(STATE_FILE, 'w')
\* fails (line 318) after the entry was stored; the except of line 560 turns
\* the error into a 500
StartModelSaveFails(f) ==
    /\ f \in calls
    /\ f.op = "start"
    /\ f.pid \in DOMAIN procs
    /\ calls' = calls \ {f}
    /\ running_models' = DictSet(running_models, NewEntry(f))
    /\ ev' = Response(ReturnOp(f.caller), f.model, 500, "error starting model")
    /\ UNCHANGED <<state_file, procs, next_pid, kids, log_vars, task_vars, auth_vars, status_vars, list_vars>>

\* ----------------------------------------------------------- stop_model
\* a stop_model without its first check
StopNotFound_unchecked(m) == FALSE

\* line 567: if model_name not in running_models
StopNotFound(m) == ~IsRegistered(m)

Kill(ps, pid) == [p \in DOMAIN ps \ {pid} |-> ps[p]]

\* stop_model has no await: it runs to its response in one piece
StopModel(m) ==
    /\ UNCHANGED <<next_pid, calls, kids, log_vars, task_vars, auth_vars, status_vars, list_vars>>
    /\ IF StopNotFound(m)
       THEN /\ ev' = Response("stop", m, 404, "not running")
            /\ UNCHANGED <<running_models, state_file, procs>>
       ELSE IF ~IsRegistered(m)
       THEN \* running_models[model_name] raises KeyError
            /\ ev' = Response("stop", m, 500, "key error")
            /\ UNCHANGED <<running_models, state_file, procs>>
       ELSE LET info == Entry(m)
            IN  IF ~info.process /\ info.pid \notin DOMAIN procs
                THEN \* psutil.Process(pid) raises NoSuchProcess
                     /\ ev' = Response("stop", m, 500, "no such process")
                     /\ UNCHANGED <<running_models, state_file, procs>>
                ELSE \* terminate(), wait(timeout=10), kill(); Popen.terminate()
                     \* on a process that has exited does nothing
                     /\ procs' = Kill(procs, info.pid)
                     /\ running_models' = DictDel(running_models, m)
                     /\ state_file' = save_state(running_models')
                     /\ ev' = Response("stop", m, 200, "")

\* ------------------------------------------------- startup and shutdown
\* a load_state that restores every saved entry
load_state_unchecked(file) == file

\* load_state: the saved entries whose pid still exists, without a handle
load_state(file) ==
    SelectSeq(file, LAMBDA e : e.pid \in DOMAIN procs)

\* The manager process ends and is started again.  A graceful shutdown runs
\* shutdown_event, which saves the state and the sessions (saved = TRUE); a
\* kill does not.  startup_event loads both.  The requests in flight are
\* lost; the spawned processes lead their own sessions (os.setsid) and go on.
ManagerRestart(saved) ==
    /\ state_file' = IF saved THEN save_state(running_models) ELSE state_file
    /\ running_models' = load_state(state_file')
    /\ session_file' = IF saved THEN sessions ELSE session_file
    /\ sessions' = session_file'
    /\ calls' = {}
    /\ listing' = NoListing
    /\ ev' = Response("restart_manager", "m0", 0, "")
    /\ UNCHANGED <<procs, next_pid, kids, now, next_token, issued, revoked,
                   log_vars, task_vars, status_vars>>

\* ---------------------------------------------------------- environment
\* an inference server binds its port and answers /health
ProcessReady(pid) ==
    /\ pid \in DOMAIN procs
    /\ procs[pid].st = "starting"
    /\ is_port_available(procs[pid].port)
    /\ procs' = [procs EXCEPT ![pid].st = "ready"]
    /\ ev' = NoEvent
    /\ UNCHANGED <<running_models, state_file, next_pid, calls, kids,
                   log_vars, task_vars, auth_vars, status_vars, list_vars>>

\* an inference server exits on its own
ProcessExit(pid) ==
    /\ pid \in DOMAIN procs
    /\ procs' = Kill(procs, pid)
    /\ ev' = NoEvent
    /\ UNCHANGED <<running_models, state_file, next_pid, calls, kids,
                   log_vars, task_vars, auth_vars, status_vars, list_vars>>

\* the pid of a server on this host that the manager has not spawned
ForeignPid == 0

\* another server (a vLLM started by hand) begins to listen on a port
ForeignListen(port) ==
    /\ ForeignPid \notin DOMAIN procs
    /\ is_port_available(port)
    /\ procs' = (ForeignPid :> [port |-> port, st |-> "ready",
                                CUDA_VISIBLE_DEVICES |-> "0"]) @@ procs
    /\ ev' = NoEvent
    /\ UNCHANGED <<running_models, state_file, next_pid, calls, kids,
                   log_vars, task_vars, auth_vars, status_vars, list_vars>>

\* ------------------------------------------------------ forked children
\* a spawned server forks a child; the child is in the process group of the
\* server, which leads its own session (preexec_fn=os.setsid)
ProcessFork(pid) ==
    /\ pid \in DOMAIN procs
    /\ pid \notin kids
    /\ kids' = kids \cup {pid}
    /\ ev' = NoEvent
    /\ UNCHANGED <<running_models, state_file, procs, next_pid, calls,
                   log_vars, task_vars, auth_vars, status_vars, list_vars>>

\* the forked children of a server exit on their own
ChildExit(pid) ==
    /\ pid \in kids
    /\ kids' = kids \ {pid}
    /\ ev' = NoEvent
    /\ UNCHANGED <<running_models, state_file, procs, next_pid, calls,
                   log_vars, task_vars, auth_vars, status_vars, list_vars>>

\* ------------------------------------------- restart_model and assign_gpu
\* stop_model lines 581-582: the entry has no Popen handle and
\* psutil.Process(pid) raises NoSuchProcess
StopRaises(m) == ~Entry(m).process /\ Entry(m).pid \notin DOMAIN procs

\* stop_model lines 573-589, awaited by another handler: signal, delete, save
StopModelInline(m, reg) ==
    /\ procs' = Kill(procs, Entry(m).pid)
    /\ running_models' = DictDel(reg, m)
    /\ state_file' = save_state(running_models')

\* restart_model up to its await asyncio.sleep(2)
RestartModelBegin(m) ==
    /\ UNCHANGED <<next_pid, kids, log_vars, task_vars, auth_vars, status_vars, list_vars>>
    /\ IF ~IsRegistered(m)
       THEN /\ ev' = Response("restart", m, 404, "not running")
            /\ UNCHANGED <<running_models, state_file, procs, calls>>
       ELSE IF StopRaises(m)
       THEN \* the HTTPException of stop_model is the response
            /\ ev' = Response("restart", m, 500, "no such process")
            /\ UNCHANGED <<running_models, state_file, procs, calls>>
       ELSE /\ StopModelInline(m, running_models)
            /\ calls' = calls \cup {Frame("restart", m, NoConfig, 0, 0, "restart", Entry(m))}
            /\ ev' = Response("restart_sleep", m, 0, "")

\* ModelConfig(**config_dict) raises ValidationError: the dict is not empty
\* and lacks the required name, path and port
Invalid(config_dict) == ~config_dict.given /\ config_dict # NoConfig

\* lines 611-612: running_models.get(model_name, {}).get("config", {}), and
\* None when that is empty
PreviousConfig(m) ==
    IF IsRegistered(m) THEN Entry(m).config ELSE NoConfig

\* restart_model after its sleep(2): the config, then start_model to its sleep
RestartModelResume(f, popen_ok) ==
    /\ f \in calls
    /\ f.op = "restart"
    /\ UNCHANGED <<running_models, state_file, kids, log_vars, task_vars, auth_vars, status_vars, list_vars>>
    /\ IF Invalid(PreviousConfig(f.model))
       THEN \* the ValidationError is not caught: 500
            /\ ev' = Response("restart_return", f.model, 500, "validation error")
            /\ calls' = calls \ {f}
            /\ UNCHANGED <<procs, next_pid>>
       ELSE start_model(f.model, PreviousConfig(f.model), popen_ok, "restart", f.prev,
                        calls \ {f})

\* lines 658-659: info["config"]["gpu_ids"] = gpu_ids, on the registry's own dict
SetGpu(info, gpu_ids) == [info EXCEPT !.config.gpu_ids = gpu_ids]

\* assign_gpu up to its await asyncio.sleep(2)
AssignGpuBegin(m, gpu_ids) ==
    /\ UNCHANGED <<next_pid, kids, log_vars, task_vars, auth_vars, status_vars, list_vars>>
    /\ IF ~IsRegistered(m)
       THEN /\ ev' = Response("assign", m, 404, "not running")
            /\ UNCHANGED <<running_models, state_file, procs, calls>>
       ELSE LET info == SetGpu(Entry(m), gpu_ids)
            IN  IF Invalid(info.config)
                THEN \* line 660: the ValidationError is not caught: 500, and
                     \* the entry keeps the config changed in place
                     /\ running_models' = DictSet(running_models, info)
                     /\ ev' = Response("assign", m, 500, "validation error")
                     /\ UNCHANGED <<state_file, procs, calls>>
                ELSE IF StopRaises(m)
                THEN /\ running_models' = DictSet(running_models, info)
                     /\ ev' = Response("assign", m, 500, "no such process")
                     /\ UNCHANGED <<state_file, procs, calls>>
                ELSE /\ StopModelInline(m, running_models)
                     /\ calls' = calls \cup
                           {Frame("assign", m, info.config, 0, 0, "assign", Entry(m))}
                     /\ ev' = Response("assign_sleep", m, 0, "")

\* assign_gpu after its sleep(2): start_model with the changed config
AssignGpuResume(f, popen_ok) ==
    /\ f \in calls
    /\ f.op = "assign"
    /\ UNCHANGED <<running_models, state_file, kids, log_vars, task_vars, auth_vars, status_vars, list_vars>>
    /\ start_model(f.model, f.config, popen_ok, "assign", f.prev, calls \ {f})

\* ------------------------------------------------- list_running_models
\* a status that says "running" whatever the probe answered
StatusOf_unprobed(is_healthy) == "running"

\* line 450: "running" if is_healthy else "error"
StatusOf(is_healthy) == IF is_healthy THEN "running" ELSE "error"

\* lines 447-457
ModelStatus(info, is_healthy) ==
    [name |-> info.name, model_type |-> info.model_type, status |-> StatusOf(is_healthy),
     port |-> info.port, pid |-> info.pid, gpu_ids |-> info.gpu_ids]

\* GET /api/models/running up to its first await
ListBegin ==
    /\ ~listing.active
    /\ IF running_models = <<>>
       THEN /\ ev' = Reply("list_return", "m0", 200, "", <<>>)
            /\ UNCHANGED listing
       ELSE /\ listing' = [active |-> TRUE, pos |-> 1, size |-> Len(running_models),
                           cur |-> running_models[1], statuses |-> <<>>, probes |-> <<>>,
                           reg0 |-> running_models, quiet |-> TRUE,
                           seen |-> Names(running_models)]
            /\ ev' = Response("list_probe", running_models[1].name, 0, "")
    /\ UNCHANGED <<running_models, state_file, procs, next_pid, calls, kids,
                   log_vars, task_vars, auth_vars, status_vars>>

\* list_running_models after an await check_model_health: the status of the
\* entry probed, then the iterator's next entry.  The iterator raises
\* RuntimeError when the dict has another size than when it was made; when
\* entries were replaced and the size is the same it may raise too (keys
\* changed) or go on, which `raises` decides.
ListStep(raises) ==
    /\ listing.active
    /\ LET is_healthy == check_model_health(listing.cur.port)
           statuses == Append(listing.statuses, ModelStatus(listing.cur, is_healthy))
           probes == Append(listing.probes, is_healthy)
           same == running_models = listing.reg0
       IN  /\ raises => ~same
           /\ ~raises => Len(running_models) = listing.size
           /\ IF raises
              THEN /\ ev' = Response("list_return", "m0", 500, "dictionary changed")
                   /\ listing' = NoListing
              ELSE IF listing.pos < Len(running_models)
              THEN /\ listing' = [listing EXCEPT
                          !.pos = @ + 1, !.cur = running_models[listing.pos + 1],
                          !.statuses = statuses, !.probes = probes,
                          !.quiet = @ /\ same, !.seen = @ \cup Names(running_models)]
                   /\ ev' = Response("list_probe",
                                     running_models[listing.pos + 1].name, 0, "")
              ELSE /\ listing' = NoListing
                   /\ ev' = Reply("list_return", "m0", 200, "", statuses)
    /\ UNCHANGED <<running_models, state_file, procs, next_pid, calls, kids,
                   log_vars, task_vars, auth_vars, status_vars>>

\* ------------------------------------------------------ stop_all_models
\* list(running_models.keys())
Keys(reg) == [i \in 1..Len(reg) |-> reg[i].name]

\* what stop_all_models has done so far: the registry, the processes and its
\* two lists
StopAllStart == [reg |-> running_models, ps |-> procs, stopped |-> <<>>, errors |-> <<>>]

\* a loop body that reports a model as stopped and leaves its entry
StopOne_kept(acc, name) == [acc EXCEPT !.stopped = Append(@, name)]

\* lines 623-627: one turn of the loop; stop_model (567-597) has no await
StopOne(acc, name) ==
    IF name \notin Names(acc.reg)
    THEN \* line 568: the HTTPException is caught at line 626
         [acc EXCEPT !.errors = Append(@, name)]
    ELSE LET info == acc.reg[IndexOf(acc.reg, name)]
         IN  IF ~info.process /\ info.pid \notin DOMAIN acc.ps
             THEN \* psutil.Process(pid) raises NoSuchProcess
                  [acc EXCEPT !.errors = Append(@, name)]
             ELSE [acc EXCEPT !.ps = Kill(@, info.pid),
                              !.reg = DictDel(@, name),
                              !.stopped = Append(@, name)]

RECURSIVE StopEach(_, _)
\* line 622: for name in list(running_models.keys())
StopEach(names, acc) ==
    IF names = <<>> THEN acc
    ELSE StopEach(Tail(names), StopOne(acc, Head(names)))

\* DELETE /api/models/stop-all: no await suspends it, it runs in one piece
StopAllModels ==
    LET r == StopEach(Keys(running_models), StopAllStart)
    IN  /\ running_models' = r.reg
        /\ procs' = r.ps
        /\ state_file' = IF r.stopped = <<>> THEN state_file ELSE save_state(r.reg)
        /\ ev' = Reply("stop_all", "m0", 200, "",
                       <<[stopped |-> r.stopped, errors |-> r.errors]>>)
        /\ UNCHANGED <<next_pid, calls, kids, log_vars, task_vars, auth_vars, status_vars, list_vars>>

\* ------------------------------------------------------ authentication
\* the user names and passwords login requests carry
Users == {"admin", "guest"}
Passwords == {"admin123", "letmein"}

\* hash_password: SHA256 of the password, as a hex string
hash_password(password) == <<"sha256", password>>
\* lines 41-43: the hash of the default password
ADMIN_PASSWORD_HASH == hash_password("admin123")

\* request.cookies.get("session_token") of a request without the cookie
NoToken == 0
\* the tokens requests carry: none, one a login has issued, or another one
Tokens == NoToken..MaxTokens

\* datetime.isoformat() and datetime.fromisoformat()
isoformat(t) == <<"iso", t>>
fromisoformat(str) == str[2]

\* a del that leaves the session in the table
RemoveSession_kept(table, token) == table

\* del sessions[token]
RemoveSession(table, token) == [t \in DOMAIN table \ {token} |-> table[t]]

\* a verify_session that accepts every token
verify_session_unchecked(token) == TRUE

\* verify_session, its result
verify_session(token) ==
    /\ token # NoToken
    /\ token \in DOMAIN sessions
    /\ ~(now > fromisoformat(sessions[token].expires))

\* verify_session, its effect: an expired session is deleted and the table saved
VerifySessionEffect(token) ==
    IF token # NoToken /\ token \in DOMAIN sessions
         /\ now > fromisoformat(sessions[token].expires)
    THEN /\ sessions' = RemoveSession(sessions, token)
         /\ session_file' = sessions'
    ELSE UNCHANGED <<sessions, session_file>>

\* POST /api/login; create_session draws a fresh token
Login(username, password) ==
    /\ UNCHANGED <<running_models, state_file, procs, next_pid, calls, kids, now, revoked,
                   log_vars, task_vars, status_vars, list_vars>>
    /\ IF username # ADMIN_USERNAME \/ hash_password(password) # ADMIN_PASSWORD_HASH
       THEN /\ ev' = Reply("login", "m0", 401, "Invalid username or password",
                           <<[username |-> username, password |-> password, token |-> NoToken]>>)
            /\ UNCHANGED <<sessions, session_file, next_token, issued>>
       ELSE /\ next_token <= MaxTokens
            /\ sessions' = (next_token :>
                   [username |-> username, created |-> isoformat(now),
                    expires |-> isoformat(now + SESSION_TIMEOUT)]) @@ sessions
            /\ session_file' = sessions'
            /\ issued' = (next_token :> now) @@ issued
            /\ next_token' = next_token + 1
            /\ ev' = Reply("login", "m0", 200, "",
                           <<[username |-> username, password |-> password, token |-> next_token]>>)

\* POST /api/logout
Logout(token) ==
    /\ UNCHANGED <<running_models, state_file, procs, next_pid, calls, kids, now, next_token,
                   issued, log_vars, task_vars, status_vars, list_vars>>
    /\ IF token \in DOMAIN sessions
       THEN /\ sessions' = RemoveSession(sessions, token)
            /\ session_file' = sessions'
       ELSE UNCHANGED <<sessions, session_file>>
    /\ revoked' = IF token \in DOMAIN issued THEN revoked \cup {token} ELSE revoked
    /\ ev' = Reply("logout", "m0", 200, "", <<[token |-> token]>>)

\* GET /api/check-auth
CheckAuth(token) ==
    /\ UNCHANGED <<running_models, state_file, procs, next_pid, calls, kids, now, next_token,
                   issued, revoked, log_vars, task_vars, status_vars, list_vars>>
    /\ VerifySessionEffect(token)
    /\ ev' = Reply("check_auth", "m0", 200, "",
                   <<[token |-> token, authenticated |-> verify_session(token)]>>)

\* the instants at which requests arrive: the first seconds of each
\* SESSION_TIMEOUT period
Instants == {t \in 0..MaxTime : t % SESSION_TIMEOUT <= 2}

\* time passes until the instant t
Tick(t) ==
    /\ t > now
    /\ now' = t
    /\ ev' = NoEvent
    /\ UNCHANGED <<running_models, state_file, procs, next_pid, calls, kids, sessions,
                   session_file, next_token, issued, revoked, log_vars, task_vars, status_vars, list_vars>>

\* get_current_user of a protected route rejects the request
Unauthorized(op, m, token) ==
    /\ ~verify_session(token)
    /\ VerifySessionEffect(token)
    /\ ev' = Reply(op, m, 401, "Invalid or expired session", <<[token |-> token]>>)
    /\ UNCHANGED <<running_models, state_file, procs, next_pid, calls, kids, now, next_token,
                   issued, revoked, log_vars, task_vars, status_vars, list_vars>>

\* The protected routes: the dependency get_current_user runs first, in the
\* same turn of the event loop as the handler's first piece.
AuthStart(token, m, config, popen_ok) ==
    IF verify_session(token)
    THEN StartModelBegin(m, config, popen_ok)
    ELSE Unauthorized("start", m, token)

AuthStop(token, m) ==
    IF verify_session(token) THEN StopModel(m) ELSE Unauthorized("stop", m, token)

AuthRestart(token, m) ==
    IF verify_session(token) THEN RestartModelBegin(m) ELSE Unauthorized("restart", m, token)

AuthStopAll(token) ==
    IF verify_session(token) THEN StopAllModels ELSE Unauthorized("stop_all", "m0", token)

AuthAssign(token, m, gpu_ids) ==
    IF verify_session(token)
    THEN AssignGpuBegin(m, gpu_ids)
    ELSE Unauthorized("assign", m, token)

\* ----------------------------------- Supervisor state machine (spec.md 4.4)
\* InstanceStatus (spec.md 3) is a tagged variant: one of Stopped, Starting,
\* Running, Error per modelId, Stopped being the absence of a record.  A
\* health-check routine runs per accepted start, independent of the requests.
NoStatusEvent == [op |-> "none", model |-> "m0", result |-> ""]

StatusResponse(op, m, result) == [op |-> op, model |-> m, result |-> result]

SetStatus(m, st) == [inst_status EXCEPT ![m] = st]

\* start, step 1: Starting, Running or an unacknowledged Error
StartConflict(m) == inst_status[m] \in {"Starting", "Running", "Error"}

\* start(modelId, config): steps 1, 2 and 5; it returns at once and the
\* health check goes on by itself
SupervisorStart(m) ==
    /\ UNCHANGED <<manager_vars, log_vars, task_vars, auth_vars, list_vars>>
    /\ IF StartConflict(m)
       THEN /\ status_ev' = StatusResponse("start", m, "Conflict")
            /\ UNCHANGED <<inst_status, health_checks, hc_count>>
       ELSE IF ~ModelDirExists(m)
       THEN /\ status_ev' = StatusResponse("start", m, "Precondition")
            /\ UNCHANGED <<inst_status, health_checks, hc_count>>
       ELSE /\ hc_count < MaxStarts
            /\ inst_status' = SetStatus(m, "Starting")
            /\ hc_count' = hc_count + 1
            /\ health_checks' = health_checks \cup {[model |-> m, id |-> hc_count + 1]}
            /\ status_ev' = StatusResponse("start", m, "ok")

\* healthCheck succeeds: commit Running
HealthCheckSucceeds(h) ==
    /\ h \in health_checks
    /\ inst_status' = SetStatus(h.model, "Running")
    /\ health_checks' = health_checks \ {h}
    /\ status_ev' = StatusResponse("healthCheck", h.model, "Running")
    /\ UNCHANGED <<hc_count, manager_vars, log_vars, task_vars, auth_vars, list_vars>>

\* healthCheck fails on any of its failure paths: commit Error
HealthCheckFails(h) ==
    /\ h \in health_checks
    /\ inst_status' = SetStatus(h.model, "Error")
    /\ health_checks' = health_checks \ {h}
    /\ status_ev' = StatusResponse("healthCheck", h.model, "Error")
    /\ UNCHANGED <<hc_count, manager_vars, log_vars, task_vars, auth_vars, list_vars>>

\* stop(modelId): clear any transient state; Not-Found unless a Running
\* record exists
SupervisorStop(m) ==
    /\ inst_status' = SetStatus(m, "Stopped")
    /\ status_ev' = StatusResponse("stop", m,
                                   IF inst_status[m] = "Running" THEN "ok" ELSE "NotFound")
    /\ UNCHANGED <<health_checks, hc_count, manager_vars, log_vars, task_vars, auth_vars,
                   list_vars>>

\* a clearError that is valid in every status
ClearErrorValid_unchecked(m) == TRUE

\* clearError is only valid when status is Error
ClearErrorValid(m) == inst_status[m] = "Error"

\* clearError(modelId) -> ok | NotFound
ClearError(m) ==
    /\ UNCHANGED <<health_checks, hc_count, manager_vars, log_vars, task_vars, auth_vars,
                   list_vars>>
    /\ IF ClearErrorValid(m)
       THEN /\ inst_status' = SetStatus(m, "Stopped")
            /\ status_ev' = StatusResponse("clearError", m, "ok")
       ELSE /\ status_ev' = StatusResponse("clearError", m, "NotFound")
            /\ UNCHANGED inst_status

\* --------------------------------------------------- Log Hub (spec.md 4.2)
\* what the subscriber has been sent: the replay on joining, then the live
\* lines; base is the number of lines pushed when it joined, clean whether no
\* broadcast was waiting then
NoSubscriber ==
    [attached |-> FALSE, replay |-> <<>>, live |-> <<>>, base |-> 0, clean |-> FALSE]

\* a buffer that never evicts
BufferAppend_unbounded(buf, line) == Append(buf, line)

\* the bounded buffer: the oldest line is evicted at capacity
BufferAppend(buf, line) ==
    IF Len(buf) >= LogCapacity THEN Append(Tail(buf), line) ELSE Append(buf, line)

\* push, called on the reader thread: the line is appended to the buffer and
\* its delivery is handed to the event loop
Push ==
    /\ log_count < MaxPushes
    /\ Len(log_pending) < MaxPending
    /\ log_count' = log_count + 1
    /\ log_buffer' = BufferAppend(log_buffer, log_count')
    /\ log_pending' = Append(log_pending, log_count')
    /\ UNCHANGED <<subscriber, manager_vars, task_vars, auth_vars, status_vars, list_vars>>

\* the event loop delivers a pushed line to the attached subscribers
Broadcast ==
    /\ log_pending # <<>>
    /\ log_pending' = Tail(log_pending)
    /\ subscriber' =
          IF subscriber.attached
          THEN [subscriber EXCEPT !.live = Append(@, Head(log_pending))]
          ELSE subscriber
    /\ UNCHANGED <<log_buffer, log_count, manager_vars, task_vars, auth_vars, status_vars, list_vars>>

\* subscribe, on the event loop: replay the buffered history, then attach
Subscribe ==
    /\ ~subscriber.attached
    /\ subscriber' = [attached |-> TRUE, replay |-> log_buffer, live |-> <<>>,
                      base |-> log_count, clean |-> log_pending = <<>>]
    /\ UNCHANGED <<log_buffer, log_pending, log_count,
                   manager_vars, task_vars, auth_vars, status_vars, list_vars>>

\* ------------------------------------- Background Task Runner (spec.md 4.3)
NoTaskEvent == [op |-> "none", task |-> "dl-1", result |-> ""]
TaskResponse(t, result) == [op |-> "spawn", task |-> t, result |-> result]

\* a runner that accepts every spawn
TaskConflict_unchecked(t) == FALSE

\* a taskId is taken while it is registered
TaskConflict(t) == t \in task_registry

\* spawn(taskId, work): Conflict for a duplicate, else register the task's
\* channel and start the worker thread
Spawn(t) ==
    /\ UNCHANGED <<manager_vars, log_vars, auth_vars, status_vars, list_vars>>
    /\ IF TaskConflict(t)
       THEN /\ task_ev' = TaskResponse(t, "Conflict")
            /\ UNCHANGED <<task_registry, task_channel, workers, task_runs, observed>>
       ELSE /\ task_runs[t] < MaxRuns
            /\ task_runs' = [task_runs EXCEPT ![t] = @ + 1]
            /\ task_registry' = task_registry \cup {t}
            /\ task_channel' = [task_channel EXCEPT ![t] = <<>>]
            /\ workers' = workers \cup
                  {[task |-> t, run |-> task_runs'[t], pc |-> "working", outcome |-> "none"]}
            /\ task_ev' = TaskResponse(t, "ok")
            /\ UNCHANGED observed

\* work calls its line sink
WorkerLine(w) ==
    /\ w \in workers
    /\ w.pc = "working"
    /\ Len(task_channel[w.task]) < MaxQueued
    /\ task_channel' = [task_channel EXCEPT ![w.task] = Append(@, "line")]
    /\ task_ev' = NoTaskEvent
    /\ UNCHANGED <<task_registry, workers, task_runs, observed,
                   manager_vars, log_vars, auth_vars, status_vars, list_vars>>

\* work returns (ok) or raises: it has committed success or error, and the
\* runner enqueues the completion sentinel
WorkerExit(w, ok) ==
    /\ w \in workers
    /\ w.pc = "working"
    /\ task_channel' = [task_channel EXCEPT ![w.task] = Append(@, Sentinel)]
    /\ workers' = (workers \ {w}) \cup
          {[w EXCEPT !.pc = "exiting", !.outcome = IF ok THEN "success" ELSE "error"]}
    /\ task_ev' = NoTaskEvent
    /\ UNCHANGED <<task_registry, task_runs, observed, manager_vars, log_vars, auth_vars, status_vars, list_vars>>

\* then the runner unregisters the task and the worker thread returns
WorkerUnregister(w) ==
    /\ w \in workers
    /\ w.pc = "exiting"
    /\ task_registry' = task_registry \ {w.task}
    /\ workers' = workers \ {w}
    /\ task_ev' = NoTaskEvent
    /\ UNCHANGED <<task_channel, task_runs, observed, manager_vars, log_vars, auth_vars, status_vars, list_vars>>

\* the streaming consumer reads the next item of the task's channel
ConsumerRead(t) ==
    /\ task_channel[t] # <<>>
    /\ task_channel' = [task_channel EXCEPT ![t] = Tail(@)]
    /\ observed' = IF Head(task_channel[t]) = Sentinel
                   THEN [observed EXCEPT ![t] = task_runs[t]]
                   ELSE observed
    /\ task_ev' = NoTaskEvent
    /\ UNCHANGED <<task_registry, workers, task_runs, manager_vars, log_vars, auth_vars, status_vars, list_vars>>

Init ==
    /\ running_models = <<>>
    /\ state_file = <<>>
    /\ procs = <<>>
    /\ next_pid = 1
    /\ calls = {}
    /\ ev = NoEvent
    /\ kids = {}
    /\ log_buffer = <<>>
    /\ log_pending = <<>>
    /\ log_count = 0
    /\ subscriber = NoSubscriber
    /\ task_registry = {}
    /\ task_channel = [t \in Tasks |-> <<>>]
    /\ workers = {}
    /\ task_runs = [t \in Tasks |-> 0]
    /\ observed = [t \in Tasks |-> 0]
    /\ task_ev = NoTaskEvent
    /\ sessions = <<>>
    /\ session_file = <<>>
    /\ now = 0
    /\ next_token = 1
    /\ issued = <<>>
    /\ revoked = {}
    /\ inst_status = [m \in Models |-> "Stopped"]
    /\ health_checks = {}
    /\ hc_count = 0
    /\ status_ev = NoStatusEvent
    /\ listing = NoListing

Next ==
    \/ \E m \in Models, config \in Configs, popen_ok \in BOOLEAN :
          StartModelBegin(m, config, popen_ok)
    \/ \E f \in calls : StartModelFinish(f)
    \/ \E m \in Models : StopModel(m)
    \/ \E saved \in BOOLEAN : ManagerRestart(saved)
    \/ \E pid \in DOMAIN procs : ProcessReady(pid)
    \/ \E pid \in DOMAIN procs : ProcessExit(pid)

Spec == Init /\ [][Next]_vars

\* Spec with the children a server forks
NextGroup ==
    \/ Next
    \/ \E pid \in DOMAIN procs : ProcessFork(pid)
    \/ \E pid \in kids : ChildExit(pid)

SpecGroup == Init /\ [][NextGroup]_vars

\* Spec with the endpoints restart_model and assign_gpu
NextOps ==
    \/ Next
    \/ \E m \in Models : RestartModelBegin(m)
    \/ \E f \in calls, popen_ok \in BOOLEAN : RestartModelResume(f, popen_ok)
    \/ \E m \in Models, gpu_ids \in Gpus : AssignGpuBegin(m, gpu_ids)
    \/ \E f \in calls, popen_ok \in BOOLEAN : AssignGpuResume(f, popen_ok)

SpecOps == Init /\ [][NextOps]_vars

\* the Log Hub: one channel, its reader thread and one subscriber
NextLog ==
    \/ Push
    \/ Broadcast
    \/ Subscribe

SpecLog == Init /\ [][NextLog]_vars

\* the Background Task Runner
NextTasks ==
    \/ \E t \in Tasks : Spawn(t)
    \/ \E w \in workers : WorkerLine(w)
    \/ \E w \in workers, ok \in BOOLEAN : WorkerExit(w, ok)
    \/ \E w \in workers : WorkerUnregister(w)
    \/ \E t \in Tasks : ConsumerRead(t)

SpecTasks == Init /\ [][NextTasks]_vars

\* Spec with the endpoint stop_all_models
NextStopAll ==
    \/ Next
    \/ StopAllModels

SpecStopAll == Init /\ [][NextStopAll]_vars

\* the requests that start and stop instances, and the processes they spawn;
\* the manager itself keeps running
NextRequests ==
    \/ \E m \in Models, config \in Configs, popen_ok \in BOOLEAN :
          StartModelBegin(m, config, popen_ok)
    \/ \E f \in calls : StartModelFinish(f)
    \/ \E m \in Models : StopModel(m)
    \/ \E m \in Models : RestartModelBegin(m)
    \/ \E f \in calls, popen_ok \in BOOLEAN : RestartModelResume(f, popen_ok)
    \/ \E m \in Models, gpu_ids \in Gpus : AssignGpuBegin(m, gpu_ids)
    \/ \E f \in calls, popen_ok \in BOOLEAN : AssignGpuResume(f, popen_ok)
    \/ StopAllModels
    \/ \E pid \in DOMAIN procs : ProcessReady(pid)
    \/ \E pid \in DOMAIN procs : ProcessExit(pid)

SpecRequests == Init /\ [][NextRequests]_vars

\* list_running_models among start and stop requests
NextList ==
    \/ \E m \in Models, config \in Configs, popen_ok \in BOOLEAN :
          StartModelBegin(m, config, popen_ok)
    \/ \E f \in calls : StartModelFinish(f)
    \/ \E m \in Models : StopModel(m)
    \/ \E pid \in DOMAIN procs : ProcessReady(pid)
    \/ \E pid \in DOMAIN procs : ProcessExit(pid)
    \/ ListBegin
    \/ \E raises \in BOOLEAN : ListStep(raises)

SpecList == Init /\ [][NextList]_vars

\* start_model and assign_gpu on a host where another server takes ports
NextAssign ==
    \/ \E m \in Models, config \in Configs, popen_ok \in BOOLEAN :
          StartModelBegin(m, config, popen_ok)
    \/ \E f \in calls : StartModelFinish(f)
    \/ \E m \in Models, gpu_ids \in Gpus : AssignGpuBegin(m, gpu_ids)
    \/ \E f \in calls, popen_ok \in BOOLEAN : AssignGpuResume(f, popen_ok)
    \/ ForeignListen(DefaultStartPort)
    \/ \E pid \in DOMAIN procs : ProcessReady(pid)
    \/ \E pid \in DOMAIN procs : ProcessExit(pid)

SpecAssign == Init /\ [][NextAssign]_vars

\* start and stop requests on a disk that may refuse the state file
NextSave ==
    \/ \E m \in Models, config \in Configs, popen_ok \in BOOLEAN :
          StartModelBegin(m, config, popen_ok)
    \/ \E f \in calls : StartModelFinish(f)
    \/ \E f \in calls : StartModelSaveFails(f)
    \/ \E m \in Models : StopModel(m)
    \/ \E pid \in DOMAIN procs : ProcessReady(pid)
    \/ \E pid \in DOMAIN procs : ProcessExit(pid)

SpecSave == Init /\ [][NextSave]_vars

\* the protected routes, called for the model m1 with every kind of token
NextAuth ==
    \/ Login(ADMIN_USERNAME, "admin123")
    \/ Tick(SESSION_TIMEOUT + 1)
    \/ \E token \in Tokens, config \in Configs, popen_ok \in BOOLEAN :
          AuthStart(token, "m1", config, popen_ok)
    \/ \E f \in calls : StartModelFinish(f)
    \/ \E token \in Tokens : AuthStop(token, "m1")
    \/ \E token \in Tokens : AuthRestart(token, "m1")
    \/ \E f \in calls, popen_ok \in BOOLEAN : RestartModelResume(f, popen_ok)
    \/ \E token \in Tokens, gpu_ids \in Gpus : AuthAssign(token, "m1", gpu_ids)
    \/ \E f \in calls, popen_ok \in BOOLEAN : AssignGpuResume(f, popen_ok)
    \/ \E token \in Tokens : AuthStopAll(token)

SpecAuth == Init /\ [][NextAuth]_vars

\* the supervisor's state machine
NextStatus ==
    \/ \E m \in Models : SupervisorStart(m)
    \/ \E h \in health_checks : HealthCheckSucceeds(h)
    \/ \E h \in health_checks : HealthCheckFails(h)
    \/ \E m \in Models : SupervisorStop(m)
    \/ \E m \in Models : ClearError(m)

SpecStatus == Init /\ [][NextStatus]_vars

\* the session table: login, logout, check-auth, the clock, manager restarts
NextSession ==
    \/ \E username \in Users, password \in Passwords : Login(username, password)
    \/ \E token \in Tokens : Logout(token)
    \/ \E token \in Tokens : CheckAuth(token)
    \/ \E t \in Instants : Tick(t)
    \/ \E saved \in BOOLEAN : ManagerRestart(saved)

SpecSession == Init /\ [][NextSession]_vars

\* ---------------------------------------------------- reported status
\* What the manager reports for a model: list_running_models lists the
\* registered models only, "running" when the probe of the entry's port
\* answers and "error" otherwise; a model it does not list is stopped.
ReportedStatus(m) ==
    IF ~IsRegistered(m) THEN "stopped"
    ELSE IF check_model_health(Entry(m).port) THEN "running"
    ELSE "error"

StartFrames == { f \in calls : f.op = "start" }
\* the start took its port from find_available_port
UsesAllocator(f) == ~(f.config.given /\ f.config.port # 0)
HandlerState == <<running_models, state_file, procs, next_pid, calls>>

\* ------------------------------------------------------------- claims
\* C1: a start request for a model that is registered in running_models is
\* answered with the conflict error (400) at once: no port is taken, no
\* process is spawned, no request is left suspended, and the registry (the
\* entry's port, pid, gpu_ids and config included) and the state file stay
\* as they were.
C1_StartOfRegisteredRejected ==
    [][\A m \in Models :
          (IsRegistered(m) /\ ev'.model = m /\ ev'.op \in {"start", "spawn"})
             => (ev'.code = 400 /\ ev'.op = "start" /\ HandlerState' = HandlerState)]_vars

C1_Witness ==
    /\ ev = Response("start", "m1", 400, "already running")
    /\ IsRegistered("m1")
    /\ Entry("m1").pid \in DOMAIN procs

\* C2: a start of m issued while an earlier start of m is still in flight is
\* rejected, so no two starts of the same model are ever in flight together
\* (each in-flight start has spawned a process of its own).
C2_OneStartInFlightPerModel ==
    \A f, g \in StartFrames : f.model = g.model => f = g

\* C3: no two registered instances hold the same port.
C3_RegisteredPortsDistinct ==
    \A i, j \in 1..Len(running_models) :
        i # j => running_models[i].port # running_models[j].port

\* C4: two concurrent starts of different models that both take their port
\* from the allocator are never given the same port.
C4_ConcurrentStartsGetDistinctPorts ==
    \A f, g \in StartFrames :
        (f.model # g.model /\ UsesAllocator(f) /\ UsesAllocator(g)) => f.port # g.port

\* C5: find_available_port(start) is the least port p >= start that no
\* registered instance holds and no process listens on; with an empty
\* registry and no listening process it is start itself (8000 by default).
PortOfRegistered(p) == \E i \in 1..Len(running_models) : running_models[i].port = p
PortListenedOn(p) == \E pid \in DOMAIN procs : procs[pid].st = "ready" /\ procs[pid].port = p
PortFree(p) == ~PortOfRegistered(p) /\ ~PortListenedOn(p)

C5_FindAvailablePortLeastFree ==
    \A start \in DefaultStartPort..(DefaultStartPort + MaxSpawns) :
        LET p == find_available_port(start)
        IN  /\ p >= start
            /\ PortFree(p)
            /\ \A q \in start..(p - 1) : ~PortFree(q)
            /\ (running_models = <<>> /\ \A pid \in DOMAIN procs : procs[pid].st # "ready")
                  => p = start

\* a start has been given 8001 by the allocator; now 8000 is skipped for its
\* registered instance alone and 8001 for its listening process alone
C5_Witness ==
    /\ find_available_port(DefaultStartPort) = DefaultStartPort + 2
    /\ PortOfRegistered(DefaultStartPort) /\ ~PortListenedOn(DefaultStartPort)
    /\ PortListenedOn(DefaultStartPort + 1) /\ ~PortOfRegistered(DefaultStartPort + 1)
    /\ \E f \in StartFrames : UsesAllocator(f) /\ f.port = DefaultStartPort + 1

\* C6: a stop of a registered instance always removes it from the registry
\* and answers success, also when the process to signal no longer exists.
C6_StopAlwaysRemoves ==
    (ev.op = "stop" /\ ev.code # 404)
        => (ev.code = 200 /\ ~IsRegistered(ev.model))

\* C7: a stop of a model that has no registry entry is answered NotFound
\* (404); no process is signalled, and the registry and the state file stay
\* as they were.
C7_StopOfUnregisteredNotFound ==
    [][\A m \in Models :
          (~IsRegistered(m) /\ ev'.op = "stop" /\ ev'.model = m)
             => (ev'.code = 404 /\ HandlerState' = HandlerState)]_vars

\* the stop came while a start of the model was in flight, its process alive
C7_Witness ==
    /\ ev = Response("stop", "m1", 404, "not running")
    /\ \E f \in StartFrames : f.model = "m1" /\ f.pid \in DOMAIN procs

\* C8: from its spawn until its outcome is committed an accepted start is
\* reported as starting, and the response of start never carries a startup
\* failure.
C8_StartingObservableNoSyncFailure ==
    /\ \A f \in StartFrames : ReportedStatus(f.model) = "starting"
    /\ ev.op = "start_return" => ev.code # 500

\* C9: after a startup failure (the spawned process exited during startup)
\* the model is reported as error, not as stopped.
C9_FailedStartLeavesError ==
    (ev.op = "start_return" /\ ev.code = 500) => ReportedStatus(ev.model) = "error"

\* C10: a model is committed to the registry only when its own process has
\* answered on its port: a process that is alive but not yet serving is not
\* recorded as running.
C10_CommittedOnlyWhenServing ==
    (ev.op = "start_return" /\ ev.code = 200)
        => /\ IsRegistered(ev.model)
           /\ Entry(ev.model).pid \in DOMAIN procs
           /\ procs[Entry(ev.model).pid].st = "ready"

\* C11: an instance whose health probe never succeeds is terminated within
\* the retry budget of its start, so a registered instance whose process is
\* alive and has never answered a health probe is one whose start is still
\* in flight (nothing else would ever terminate it).
C11_UnverifiedOnlyWhileStartInFlight ==
    \A i \in 1..Len(running_models) :
        LET pid == running_models[i].pid
        IN  (pid \in DOMAIN procs /\ procs[pid].st = "starting")
               => \E f \in StartFrames : f.pid = pid

\* C13: the status reported for a model changes only along stopped->starting,
\* starting->running, starting->error, running->stopped and error->stopped.
StatusEdges ==
    { <<"stopped", "starting">>, <<"starting", "running">>, <<"starting", "error">>,
      <<"running", "stopped">>, <<"error", "stopped">> }

C13_StatusFollowsEdges ==
    [][\A m \in Models :
          \/ ReportedStatus(m)' = ReportedStatus(m)
          \/ <<ReportedStatus(m), ReportedStatus(m)'>> \in StatusEdges]_vars

\* C14: when a stop of m has just been answered while a start of m was in
\* flight, the completion of that start does not register m as running.
C14_StopDuringStartNotRegistered ==
    [][\A f \in StartFrames :
          (ev.op = "stop" /\ ev.model = f.model)
             => ~(/\ ev'.op = "start_return" /\ ev'.model = f.model /\ ev'.code = 200
                  /\ f \notin calls')]_vars

C16_UnreadyArtifactRejected ==
    [][/\ \A f \in StartFrames' \ StartFrames :
             /\ f.model \in {"m1", "m2"}
             /\ f.config.given \/ f.model = "m1"
       /\ ev'.op = "spawn" => \E f \in StartFrames' \ StartFrames : f.model = ev'.model
       /\ ev'.op = "start" => HandlerState' = HandlerState
       /\ (ev'.op \in {"start", "spawn"} /\ ev'.model = "m0")
             => ev' = Response("start", "m0", 404, "model not found")]_vars

C16_Witness ==
    /\ ev = Response("start", "m2", 404, "no configuration")
    /\ IsRegistered("m1")
    /\ calls = {}

\* C12: when stop_model answers 200 for a registered instance, no process of
\* the group created for it at spawn is alive any more: neither the spawned
\* server (the leader) nor a child it forked.
C12_StopLeavesNoGroupMember ==
    [][\A m \in Models :
          (IsRegistered(m) /\ ev' = Response("stop", m, 200, ""))
             => /\ Entry(m).pid \notin DOMAIN procs'
                /\ Entry(m).pid \notin kids']_vars

\* C17: an entry appears in the registry only when a start of a model without
\* entry completes, it disappears only through stop_model (called directly or
\* by restart_model or assign_gpu) or when a restarted manager drops it, and
\* while it stays its port, pid, gpu_ids and config do not change.
C17_LiveEntryNeverChanges ==
    [][\A m \in Models :
          /\ (~IsRegistered(m) /\ IsRegistered(m)')
                => (ev'.model = m /\ ev'.code = 200
                      /\ ev'.op \in {"start_return", "restart_return", "assign_return"})
          /\ (IsRegistered(m) /\ ~IsRegistered(m)')
                => ev'.op \in {"stop", "restart_sleep", "assign_sleep", "restart_manager"}
          /\ (IsRegistered(m) /\ IsRegistered(m)')
                => /\ Entry(m)'.port = Entry(m).port
                   /\ Entry(m)'.pid = Entry(m).pid
                   /\ Entry(m)'.gpu_ids = Entry(m).gpu_ids
                   /\ Entry(m)'.config = Entry(m).config]_vars

\* C18: when restart_model answers 200, the model is registered with the
\* port, gpu_ids and model type of the entry the restart has stopped.
C18_RestartKeepsConfig ==
    [][\A f \in StartFrames :
          (f.caller = "restart" /\ f \notin calls'
              /\ ev'.op = "restart_return" /\ ev'.model = f.model /\ ev'.code = 200)
             => /\ Entry(f.model)'.port = f.prev.port
                /\ Entry(f.model)'.gpu_ids = f.prev.gpu_ids
                /\ Entry(f.model)'.model_type = f.prev.model_type]_vars

\* the most recent min(n, LogCapacity) of the lines 1..n, in push order
LastLines(n) ==
    LET k == IF n < LogCapacity THEN n ELSE LogCapacity
    IN  [i \in 1..k |-> n - k + i]
\* what an attached subscriber must have been sent: as replay the most recent
\* min(N, 200) of the N lines pushed before it joined, then each later line
\* whose delivery has run, in order and once
ReplayThenLive ==
    /\ subscriber.replay = LastLines(subscriber.base)
    /\ subscriber.live =
          [i \in 1..(log_count - Len(log_pending) - subscriber.base)
              |-> subscriber.base + i]

WorkersOf(t) == { w \in workers : w.task = t }
Working(t) == \E w \in workers : w.task = t /\ w.pc = "working"
\* a spawn step for t that started a worker thread
Accepted(t) ==
    /\ task_ev' = TaskResponse(t, "ok")
    /\ \E w \in workers' \ workers : w.task = t /\ w.pc = "working"
\* at most one worker per taskId; a spawn for a taskId whose work is running
\* is a Conflict and starts nothing; a worker that leaves its work, by return
\* or by exception, has put the sentinel at the end of its channel
OneWorkerAndSentinel ==
    /\ \A t \in Tasks : Cardinality({ w \in workers' : w.task = t }) <= 1
    /\ \A t \in Tasks :
          (Working(t) /\ task_ev'.op = "spawn" /\ task_ev'.task = t)
             => (task_ev'.result = "Conflict" /\ workers' = workers)
    /\ \A w \in workers :
          (w.pc = "working" /\ w \notin workers')
             => /\ task_channel'[w.task] # <<>>
                /\ task_channel'[w.task][Len(task_channel'[w.task])] = Sentinel
                /\ \E v \in workers' : /\ v.task = w.task
                                       /\ v.outcome \in {"success", "error"}
SentinelObserved(t) == task_runs[t] > 0 /\ observed[t] = task_runs[t]

GoodToken(token) ==
    /\ token \in DOMAIN issued
    /\ token \notin revoked
    /\ now <= issued[token] + SESSION_TIMEOUT

\* C30: a token is accepted exactly when a login with the admin user name and
\* the matching password hash issued it, it has not been logged out and the
\* clock is not later than its issue time plus SESSION_TIMEOUT; a token
\* rejected as expired is removed from the session table; a token that was
\* logged out or rejected as expired is not in the table, so it is never
\* accepted again.
C30_AcceptedIffIssuedLiveAndFresh ==
    [][/\ ev'.op = "check_auth" =>
            LET r == ev'.body[1] IN
            /\ r.authenticated <=> GoodToken(r.token)
            /\ ~r.authenticated => r.token \notin DOMAIN sessions'
       /\ ev'.op = "login" =>
            LET r == ev'.body[1] IN
            /\ ev'.code = 200 <=>
                   (r.username = ADMIN_USERNAME /\ hash_password(r.password) = ADMIN_PASSWORD_HASH)
            /\ ev'.code = 200 => r.token \notin DOMAIN issued /\ issued'[r.token] = now
       /\ issued' # issued => ev'.op = "login" /\ ev'.code = 200
       /\ \A token \in DOMAIN sessions' : token \in DOMAIN issued' \ revoked'
       /\ now' >= now
      ]_vars

\* a check-auth has rejected a token that a login issued, that was never logged
\* out and whose lifetime is over, and the token has left the session table
C30_Witness ==
    /\ ev.op = "check_auth"
    /\ ~ev.body[1].authenticated
    /\ ev.body[1].token \in DOMAIN issued
    /\ ev.body[1].token \notin revoked
    /\ now > issued[ev.body[1].token] + SESSION_TIMEOUT
    /\ ev.body[1].token \notin DOMAIN sessions

\* ------------------------------------------------------ stop_all_models
Occurrences(seq, x) == Cardinality({i \in 1..Len(seq) : seq[i] = x})

\* C27: every model registered when stop_all_models is called appears exactly
\* once in its answer, either in "stopped" or in "errors"; a model in
\* "stopped" has no registry entry when the request returns; when "errors" is
\* empty the registry is empty.
C27_StopAllAccountsForEveryModel ==
    [][ev'.op = "stop_all" =>
          LET r == ev'.body[1] IN
          /\ \A m \in Names(running_models) :
                 Occurrences(r.stopped, m) + Occurrences(r.errors, m) = 1
          /\ \A i \in 1..Len(r.stopped) : r.stopped[i] \notin Names(running_models')
          /\ r.errors = <<>> => running_models' = <<>>
      ]_vars

\* a stop-all has answered with one model stopped and one in errors
C27_Witness ==
    /\ ev.op = "stop_all"
    /\ Len(ev.body[1].stopped) = 1
    /\ Len(ev.body[1].errors) = 1
    /\ Len(running_models) = 1

\* ------------------------------------------------------ tracked processes
\* C22: every live spawned process is referenced by a registry entry (the
\* entry's pid is the process's pid) or belongs to a start_model call that has
\* not returned yet.
C22_EveryLiveProcessTracked ==
    \A pid \in DOMAIN procs :
        \/ \E i \in 1..Len(running_models) : running_models[i].pid = pid
        \/ \E f \in StartFrames : f.pid = pid

\* C24: restart_model and assign_gpu are all-or-nothing: when either answers
\* with an error, the model is still registered and running with the port,
\* pid, gpu_ids and config it had before the request.
C24_FailedRestartLeavesModelRunning ==
    [][\A f \in calls :
          /\ f.caller \in {"restart", "assign"}
          /\ f \notin calls'
          /\ ev'.op \in {"restart", "assign", "restart_return", "assign_return"}
          /\ ev'.model = f.model
          /\ ev'.code >= 400
          => /\ f.model \in Names(running_models')
             /\ running_models'[IndexOf(running_models', f.model)] = f.prev
             /\ f.prev.pid \in DOMAIN procs'
      ]_vars

\* ------------------------------------------------------ start_model's answer
\* C23: when start_model answers with an error, the registry is as it was and
\* no process spawned by that call is alive; when it answers with success, the
\* model is registered with exactly the port and the pid of the response.
C23_StartAnswerMatchesState ==
    [][/\ ev'.op = "start" /\ ev'.code >= 400 =>
            running_models' = running_models /\ procs' = procs
       /\ \A f \in StartFrames :
             f.caller = "start" /\ f \notin calls' /\ ev'.op = "start_return"
             => /\ ev'.code >= 400 =>
                     running_models' = running_models /\ f.pid \notin DOMAIN procs'
                /\ ev'.code = 200 =>
                     /\ f.model \in Names(running_models')
                     /\ running_models'[IndexOf(running_models', f.model)].port
                            = ev'.body[1].port
                     /\ running_models'[IndexOf(running_models', f.model)].pid
                            = ev'.body[1].pid
      ]_vars

\* ------------------------------------------------- list_running_models
\* the answers of all the probes of a request that returns in this step
ProbeAnswers ==
    IF listing.active
    THEN Append(listing.probes, check_model_health(listing.cur.port))
    ELSE <<>>

\* the registry has been the same at every step of the request that returns
Undisturbed == listing.active => listing.quiet /\ running_models = listing.reg0

\* C25: list_running_models completes without raising under every
\* interleaving with start and stop requests, and every entry it returns
\* belongs to a model that was registered at some point during the call.
C25_ListNeverRaises ==
    [][ev'.op = "list_return" =>
          /\ ev'.code = 200
          /\ \A i \in 1..Len(ev'.body) :
                 ev'.body[i].name \in listing.seen \cup Names(running_models)
      ]_vars

\* C26: when the registry does not change during the request, the answer has
\* exactly one entry per registered model, in the registry's order, with the
\* port, pid and gpu_ids of the model's entry and the status "running" when the
\* probe of the entry's port answered 200 and "error" when it did not.
C26_UndisturbedListIsExact ==
    [][ev'.op = "list_return" /\ Undisturbed =>
          /\ ev'.code = 200
          /\ Len(ev'.body) = Len(running_models)
          /\ \A i \in 1..Len(running_models) :
                 /\ ev'.body[i].name = running_models[i].name
                 /\ ev'.body[i].port = running_models[i].port
                 /\ ev'.body[i].pid = running_models[i].pid
                 /\ ev'.body[i].gpu_ids = running_models[i].gpu_ids
                 /\ ev'.body[i].status = (IF ProbeAnswers[i] THEN "running" ELSE "error")
      ]_vars

\* a list request has answered with two models, one running and one in error
C26_Witness ==
    /\ ev.op = "list_return"
    /\ ev.code = 200
    /\ Len(ev.body) = 2
    /\ Len(running_models) = 2
    /\ ev.body[1].status = "error"
    /\ ev.body[2].status = "running"

\* ------------------------------------------------------------ assign_gpu
\* C28: when assign_gpu(m, g) answers with success, m is registered with
\* gpu_ids = g, its process is a new one spawned with CUDA_VISIBLE_DEVICES = g,
\* and its port, model type and the rest of its config are what they were
\* before the request.
C28_AssignChangesOnlyGpu ==
    [][\A f \in StartFrames :
          f.caller = "assign" /\ f \notin calls' /\ ev'.op = "assign_return"
            /\ ev'.model = f.model /\ ev'.code = 200
          => /\ f.model \in Names(running_models')
             /\ LET info == running_models'[IndexOf(running_models', f.model)]
                IN  /\ info.gpu_ids = f.config.gpu_ids
                    /\ info.pid # f.prev.pid
                    /\ info.pid \in DOMAIN procs'
                    /\ procs'[info.pid].CUDA_VISIBLE_DEVICES = f.config.gpu_ids
                    /\ info.port = f.prev.port
                    /\ info.model_type = f.prev.model_type
                    /\ info.config = [f.prev.config EXCEPT !.gpu_ids = f.config.gpu_ids]
      ]_vars

\* ------------------------------------------------------ protected routes
\* the request of this step was answered 401 and has changed nothing
Rejected ==
    /\ ev'.code = 401
    /\ running_models' = running_models
    /\ procs' = procs
    /\ state_file' = state_file
    /\ calls' = calls
    /\ next_pid' = next_pid

\* C29: a start, stop, restart, stop-all or assign-gpu request whose token is
\* missing, unknown, logged out or expired is answered 401 and changes neither
\* the registry nor the processes nor the state file: every step is either
\* such an answer or not the step of a protected request carrying a bad
\* token (every answer names the model of its request).
C29_BadTokenChangesNothing ==
    [][Rejected \/
       \A token \in Tokens :
          ~GoodToken(token) =>
             /\ \A config \in Configs, popen_ok \in BOOLEAN :
                    ~AuthStart(token, ev'.model, config, popen_ok)
             /\ ~AuthStop(token, ev'.model)
             /\ ~AuthRestart(token, ev'.model)
             /\ \A gpu_ids \in Gpus : ~AuthAssign(token, ev'.model, gpu_ids)
             /\ ~AuthStopAll(token)
      ]_vars

\* a stop request carrying an expired token has been answered 401 while the
\* model it names is registered
C29_Witness ==
    /\ ev.op = "stop"
    /\ ev.code = 401
    /\ ev.model \in Names(running_models)
    /\ ev.body[1].token \in DOMAIN issued
    /\ now > issued[ev.body[1].token] + SESSION_TIMEOUT

\* ------------------------------------------------------------ clearError
\* C21: clearError(modelId) answers ok exactly when the model's status is
\* Error; it then removes the Error record, so that the model is Stopped and
\* a start is no longer refused as a conflict, and touches no other model; in
\* every other status it answers NotFound and changes nothing.
C21_ClearErrorOnlyFromError ==
    [][status_ev'.op = "clearError" =>
          LET m == status_ev'.model IN
          /\ status_ev'.result \in {"ok", "NotFound"}
          /\ status_ev'.result = "ok" <=> inst_status[m] = "Error"
          /\ status_ev'.result = "ok" =>
                /\ inst_status'[m] = "Stopped"
                /\ inst_status'[m] \notin {"Starting", "Running", "Error"}
                /\ \A other \in Models \ {m} : inst_status'[other] = inst_status[other]
                /\ health_checks' = health_checks
          /\ status_ev'.result = "NotFound" =>
                inst_status' = inst_status /\ health_checks' = health_checks
      ]_vars

\* a clearError of a model whose health check had failed has answered ok and
\* the model is Stopped
C21_Witness ==
    /\ status_ev = StatusResponse("clearError", "m1", "ok")
    /\ inst_status["m1"] = "Stopped"
    /\ hc_count >= 1
    /\ health_checks = {}
====
